---- MODULE Spec2Model ----
(***************************************************************************)
(* ferret: an http.RoundTripper that measures per-request timing phases.   *)
(*                                                                         *)
(* The module models                                                       *)
(*   - Ferret.RoundTrip, its httptrace callbacks and its completion step,  *)
(*   - the Prometheus and OpenTelemetry transports that WithPrometheus /   *)
(*     WithOpenTelemetry install as f.next,                                *)
(*   - GetResult / resultFromContext over request contexts,                *)
(*   - New and the options it applies, and the deprecated accessors,       *)
(*   - the duration methods, String and MarshalJSON of Result.             *)
(*                                                                         *)
(* time.Time is a natural number, 0 being the zero time (IsZero), counted  *)
(* in clock units of UnitNs nanoseconds; a time.Duration is a difference   *)
(* of two such numbers.                                                    *)
(* A *Result is an index into heap, 0 being the nil pointer; the Result a  *)
(* call allocates has the call's number as its pointer.                    *)
(***************************************************************************)
EXTENDS Integers, Sequences, FiniteSets, TLC

\* ---------------------------------------------------------------- bounds
NumCalls == 2

MaxTime == 2

MaxEvents == 1

MaxStamp == 2

MaxCtx == 3

MaxQueries == 2

MaxRepeats == 1

MaxOpts == 2

MaxFired == 3

MaxIterations == 2

MaxConcurrency == 2

MaxDuration == 2

MaxLatency == 1

MaxResults == 11

\* ------------------------------------------------------------- variables
VARIABLES
    now,        \* the reading f.clock() returns
    layers,     \* the transports options wrapped around the base transport, outermost first
    heap,       \* the allocated Results, indexed by pointer
    writers,    \* per Result: the calls whose callbacks or completion step wrote to it
    pc,         \* per call: position inside Ferret.RoundTrip
    callerReq,  \* per call: the *http.Request the caller passed to RoundTrip
    result,     \* per call: the local variable result (pointer into heap)
    reqStack,   \* per call: the request handed to each transport below Ferret, in order
    resp,       \* per call: the response travelling back up
    err,        \* per call: the error travelling back up
    baseOut,    \* per call: what the base transport returned
    ret,        \* per call: what Ferret.RoundTrip returned
    events,     \* number of httptrace callbacks the engine has invoked so far
    seals,      \* per call: number of times the completion step ran
    emitted,    \* per call: what the exporter transports read and emitted
    got,        \* a GetResult call on its own: the handle and the outcome
    q,          \* a Result whose methods are called
    view,       \* what the duration methods returned for q, call after call
    text,       \* what String returned for q, call after call
    json,       \* what MarshalJSON returned for q, call after call
    invoked,    \* per call: number of times Ferret.RoundTrip called f.next.RoundTrip
    gauge,      \* the InFlightGauge of the PrometheusConfig
    counter,    \* per call: the labels under which the RequestCounter was incremented
    spans,      \* per call: the spans the tracer started, with their status and End calls
    legacy,     \* what the deprecated accessors of the transport returned
    opts,       \* the options passed to New
    built,      \* what New returned: the Ferret and the http.Transport it built
    clockLog,   \* per call: the readings f.clock() returned and the field each was stored in
    config,     \* the Config of the command line: Iterations and Concurrency
    spawned,    \* runSimpleMode: the loop variable i, the goroutines started so far
    worker,     \* runSimpleMode: per iteration, the position of its goroutine
    sem,        \* runSimpleMode: number of tokens in the semaphore channel
    wg,         \* runSimpleMode: the WaitGroup counter
    resultsChan, \* runSimpleMode: the buffer of the results channel
    closed,     \* runSimpleMode: whether the results channel is closed
    results,    \* the []RequestResult collected, or passed to generateSummary
    mainPc,     \* runSimpleMode: position of the main goroutine
    summary     \* the Summary generateSummary returned

vars == <<now, layers, heap, writers, pc, callerReq, result, reqStack, resp, err,
          baseOut, ret, events, seals, emitted, got, q, view, text, json,
          invoked, gauge, counter, spans, legacy, opts, built, clockLog,
          config, spawned, worker, sem, wg, resultsChan, closed, results, mainPc, summary>>

transportVarsOnly == <<now, layers, heap, writers, pc, callerReq, result, reqStack, resp, err,
                       baseOut, ret, events, seals, emitted, got,
                       invoked, gauge, counter, spans, legacy, opts, built, clockLog>>

cliVars == <<config, spawned, worker, sem, wg, resultsChan, closed, results, mainPc, summary>>

transportVars == <<now, layers, heap, writers, pc, callerReq, result, reqStack, resp, err,
                   baseOut, ret, events, seals, emitted, got,
                   invoked, gauge, counter, spans, legacy, opts, built, clockLog, cliVars>>

Calls == 1..NumCalls

\* ------------------------------------------------------------ Result type
TimeFields == {"Start", "ConnectDone", "FirstByte", "End", "DNSStart", "DNSDone",
               "ConnectStart", "TLSHandshakeStart", "TLSHandshakeDone"}

NoError == "nil"

Errors == {"refused", "canceled"}

\* errors.New(""): an error whose message is empty
EmptyMessage == ""

\* a Result whose Start is read from the wall clock, which runs ahead of the
\* injected clock
ResultFromWallClock(start) ==
    [Start |-> start + 1, ConnectDone |-> 0, FirstByte |-> 0, End |-> 0,
     DNSStart |-> 0, DNSDone |-> 0, ConnectStart |-> 0,
     TLSHandshakeStart |-> 0, TLSHandshakeDone |-> 0, Error |-> NoError]

\* &Result{Start: f.clock()}
Result(start) ==
    [Start |-> start, ConnectDone |-> 0, FirstByte |-> 0, End |-> 0,
     DNSStart |-> 0, DNSDone |-> 0, ConnectStart |-> 0,
     TLSHandshakeStart |-> 0, TLSHandshakeDone |-> 0, Error |-> NoError]

\* time.Time.Sub
Sub(t, u) == t - u

\* a connection duration always measured from Start
ConnectionDurationFromStart(r) ==
    IF r.ConnectDone = 0 \/ r.Start = 0 THEN 0 ELSE Sub(r.ConnectDone, r.Start)

ConnectionDuration(r) ==
    LET start == IF r.ConnectStart = 0 THEN r.Start ELSE r.ConnectStart
    IN  IF r.ConnectDone = 0 \/ start = 0 THEN 0 ELSE Sub(r.ConnectDone, start)

RequestDuration(r) ==
    IF r.FirstByte = 0 \/ r.ConnectDone = 0 THEN 0 ELSE Sub(r.FirstByte, r.ConnectDone)

TotalDuration(r) ==
    IF r.End = 0 \/ r.Start = 0 THEN 0 ELSE Sub(r.End, r.Start)

DNSDuration(r) ==
    IF r.DNSDone = 0 \/ r.DNSStart = 0 THEN 0 ELSE Sub(r.DNSDone, r.DNSStart)

TLSDuration(r) ==
    IF r.TLSHandshakeDone = 0 \/ r.TLSHandshakeStart = 0 THEN 0
    ELSE Sub(r.TLSHandshakeDone, r.TLSHandshakeStart)

\* a time to first byte that does not look at whether FirstByte is set
TTFBUnchecked(r) ==
    IF r.Start = 0 THEN 0 ELSE Sub(r.FirstByte, r.Start)

TTFB(r) ==
    IF r.FirstByte = 0 \/ r.Start = 0 THEN 0 ELSE Sub(r.FirstByte, r.Start)

\* a server-processing duration always measured from ConnectDone
ServerProcessingFromConnectDone(r) ==
    IF r.FirstByte = 0 \/ r.ConnectDone = 0 THEN 0 ELSE Sub(r.FirstByte, r.ConnectDone)

ServerProcessingDuration(r) ==
    LET connEnd == IF r.TLSHandshakeDone = 0 THEN r.ConnectDone ELSE r.TLSHandshakeDone
    IN  IF r.FirstByte = 0 \/ connEnd = 0 THEN 0 ELSE Sub(r.FirstByte, connEnd)

\* a data-transfer duration measured from Start
DataTransferFromStart(r) ==
    IF r.End = 0 \/ r.FirstByte = 0 THEN 0 ELSE Sub(r.End, r.Start)

DataTransferDuration(r) ==
    IF r.End = 0 \/ r.FirstByte = 0 THEN 0 ELSE Sub(r.End, r.FirstByte)

\* every duration method of Result, applied to r
Durations(r) ==
    [dns |-> DNSDuration(r), connection |-> ConnectionDuration(r), tls |-> TLSDuration(r),
     ttfb |-> TTFB(r), serverProcessing |-> ServerProcessingDuration(r),
     dataTransfer |-> DataTransferDuration(r), total |-> TotalDuration(r),
     requestDuration |-> RequestDuration(r)]

DurationNames == {"dns", "connection", "tls", "ttfb", "serverProcessing",
                  "dataTransfer", "total", "requestDuration"}

\* ------------------------------------------- String and MarshalJSON
\* time.Millisecond, in nanoseconds
Millisecond == 1000000

Microsecond == Millisecond \div 1000

Second == 1000 * Millisecond

\* the nanoseconds in one clock unit: half a millisecond
UnitNs == Millisecond \div 2

\* n milliseconds, in clock units
Ms(n) == n * (Millisecond \div UnitNs)

\* a time.Duration in nanoseconds
Nanoseconds(d) == d * UnitNs

Abs(n) == IF n < 0 THEN 0 - n ELSE n

\* time.Duration.String: sign, hours, minutes, integer part, fraction (in
\* units of 10^-prec of the unit) and unit ("us" for microseconds); "0s" for
\* the zero duration
DurationString(d) ==
    LET u == Abs(Nanoseconds(d))
    IN  IF u = 0
        THEN [neg |-> FALSE, hours |-> 0, minutes |-> 0, int |-> 0, frac |-> 0, prec |-> 0, unit |-> "s"]
        ELSE IF u < Microsecond
        THEN [neg |-> d < 0, hours |-> 0, minutes |-> 0, int |-> u, frac |-> 0, prec |-> 0, unit |-> "ns"]
        ELSE IF u < Millisecond
        THEN [neg |-> d < 0, hours |-> 0, minutes |-> 0, int |-> u \div Microsecond,
              frac |-> u % Microsecond, prec |-> 3, unit |-> "us"]
        ELSE IF u < Second
        THEN [neg |-> d < 0, hours |-> 0, minutes |-> 0, int |-> u \div Millisecond,
              frac |-> u % Millisecond, prec |-> 6, unit |-> "ms"]
        ELSE [neg |-> d < 0, hours |-> (u \div Second) \div 3600,
              minutes |-> ((u \div Second) \div 60) % 60, int |-> (u \div Second) % 60,
              frac |-> u % Second, prec |-> 9, unit |-> "s"]

\* the place of a duration in a piece that renders none
NoDuration ==
    [neg |-> FALSE, hours |-> 0, minutes |-> 0, int |-> 0, frac |-> 0, prec |-> 0, unit |-> ""]

\* one piece of the rendering: a label followed by a duration or by a message
Piece(label, dur, msg) == [label |-> label, dur |-> dur, msg |-> msg]

\* the pieces String appends after total=: each phase whose duration is > 0
PhasePieces(r) ==
    (IF DNSDuration(r) > 0 THEN <<Piece(" dns=", DurationString(DNSDuration(r)), "")>> ELSE <<>>)
    \o (IF ConnectionDuration(r) > 0
        THEN <<Piece(" connect=", DurationString(ConnectionDuration(r)), "")>> ELSE <<>>)
    \o (IF TLSDuration(r) > 0 THEN <<Piece(" tls=", DurationString(TLSDuration(r)), "")>> ELSE <<>>)
    \o (IF TTFB(r) > 0 THEN <<Piece(" ttfb=", DurationString(TTFB(r)), "")>> ELSE <<>>)

\* a rendering that appends the total after the error
StringErrorAndTotal(r) ==
    IF r.Error # NoError
    THEN <<Piece("Error: ", NoDuration, r.Error),
           Piece(" total=", DurationString(TotalDuration(r)), "")>>
    ELSE <<Piece("total=", DurationString(TotalDuration(r)), "")>> \o PhasePieces(r)

\* Result.String, as the pieces it concatenates
String(r) ==
    IF r.Error # NoError
    THEN <<Piece("Error: ", NoDuration, r.Error)>>
    ELSE <<Piece("total=", DurationString(TotalDuration(r)), "")>> \o PhasePieces(r)

\* whole milliseconds only, as d.Milliseconds() gives
MsTruncated(d) ==
    [neg |-> d < 0, int |-> Abs(Nanoseconds(d)) \div Millisecond, frac |-> 0]

\* float64(d) / float64(time.Millisecond): sign, whole milliseconds and the
\* remaining nanoseconds
MsFloat(d) ==
    [neg |-> d < 0, int |-> Abs(Nanoseconds(d)) \div Millisecond,
     frac |-> Abs(Nanoseconds(d)) % Millisecond]

\* err.Error(), or "" for a nil error
errorString(e) == IF e = NoError THEN "" ELSE e

\* a field of the struct MarshalJSON fills: its key, its value, its omitempty tag
NumberField(key, d, omitempty) ==
    [key |-> key, num |-> MsFloat(d), str |-> "", isString |-> FALSE, omitempty |-> omitempty]

StringField(key, v, omitempty) ==
    [key |-> key, num |-> MsFloat(0), str |-> v, isString |-> TRUE, omitempty |-> omitempty]

\* encoding/json: the empty value of a field (0 for a number, "" for a string)
IsEmptyValue(f) == IF f.isString THEN f.str = "" ELSE (f.num.int = 0 /\ f.num.frac = 0)

\* the struct literal of MarshalJSON, field by field
JSONStruct(r) ==
    << NumberField("dns_ms", DNSDuration(r), TRUE),
       NumberField("connect_ms", ConnectionDuration(r), FALSE),
       NumberField("tls_ms", TLSDuration(r), TRUE),
       NumberField("ttfb_ms", TTFB(r), FALSE),
       NumberField("total_ms", TotalDuration(r), FALSE),
       NumberField("request_ms", RequestDuration(r), FALSE),
       StringField("error", errorString(r.Error), TRUE) >>

\* json.Marshal: the fields in order, an omitempty field left out when empty
RECURSIVE Marshal(_)
Marshal(fields) ==
    IF fields = <<>> THEN <<>>
    ELSE (IF fields[1].omitempty /\ IsEmptyValue(fields[1]) THEN <<>> ELSE <<fields[1]>>)
         \o Marshal(Tail(fields))

\* Result.MarshalJSON
MarshalJSON(r) == Marshal(JSONStruct(r))

\* a method that stores the start it fell back to into the Result
ReceiverFillingConnectStart(r) ==
    [r EXCEPT !.ConnectStart = IF @ = 0 THEN r.Start ELSE @]

\* the Result after one of its methods returned: none assigns to a field
Receiver(r) == r

\* ------------------------------------------------ contexts and requests
\* A context is the chain of WithValue entries, innermost last.
resultKey == "resultKey"

traceKey == "clientTrace"

spanKey == "span"

userKey == "user"

Entry(k, v) == [key |-> k, val |-> v]

WithValue(ctx, k, v) == Append(ctx, Entry(k, v))

\* a lookup that walks the chain from the outermost entry
RECURSIVE CtxValueOutermost(_, _)
CtxValueOutermost(ctx, k) ==
    IF ctx = <<>> THEN 0
    ELSE IF ctx[1].key = k THEN ctx[1].val
    ELSE CtxValueOutermost(SubSeq(ctx, 2, Len(ctx)), k)

\* ctx.Value(k): the innermost entry under k, 0 (nil) when there is none
RECURSIVE CtxValue(_, _)
CtxValue(ctx, k) ==
    IF ctx = <<>> THEN 0
    ELSE IF ctx[Len(ctx)].key = k THEN ctx[Len(ctx)].val
    ELSE CtxValue(SubSeq(ctx, 1, Len(ctx) - 1), k)

\* a *http.Request: nil, or a request with its context, method, URL, headers
\* and body
NilReq == [isNil |-> TRUE, ctx |-> <<>>, Method |-> "", URL |-> "", Header |-> "", Body |-> ""]

Request(ctx) ==
    [isNil |-> FALSE, ctx |-> ctx, Method |-> "GET", URL |-> "http://example.com/",
     Header |-> "Accept: */*", Body |-> "body"]

\* a WithContext that sets the context on the request it is called on
WithContextInPlace(req, ctx) == [req EXCEPT !.ctx = ctx]

\* the request WithContext was called on, after the call: WithContext works on
\* a shallow copy and leaves the original as it was
WithContextReceiver(req, ctx) == req

\* req.WithContext(ctx): a shallow copy of req with its context changed to ctx
WithContext(req, ctx) == [req EXCEPT !.ctx = ctx]

resultFromContext(ctx) == CtxValue(ctx, resultKey)

GetResult(req) == IF req.isNil THEN 0 ELSE resultFromContext(req.ctx)

\* a *http.Response: nil, or a response object with its Request field
NoResp == [present |-> FALSE, id |-> 0, Request |-> NilReq, StatusCode |-> 0]

StatusOK == 200

StatusInternalServerError == 500

Response(i, req) == [present |-> TRUE, id |-> i, Request |-> req, StatusCode |-> StatusOK]

\* the status codes a response may carry
StatusCodes == {StatusOK, StatusInternalServerError}

\* ------------------------------------------------------ Ferret.RoundTrip
\* one Result kept on the transport and shared by every call
SharedResult(c) == 1

\* a pointer handed out again to the last call
RecycledResult(c) == IF c = NumCalls THEN 1 ELSE c

\* result := &Result{...}: a pointer of this call's own
NewResult(c) == c

\* a binding that keeps the Result a context already carries
AttachUnlessPresent(ctx, p, c) ==
    IF resultFromContext(ctx) # 0 THEN WithValue(ctx, traceKey, c)
    ELSE WithValue(WithValue(ctx, resultKey, p), traceKey, c)

\* the context RoundTrip builds: the result under resultKey, then the client trace
Attach(ctx, p, c) == WithValue(WithValue(ctx, resultKey, p), traceKey, c)

\* one call of f.clock(): the reading it returned and the field it was stored in
Reading(f, t) == [field |-> f, at |-> t]

\* the Result a ClientTrace callback writes to: the one its closure captured
TraceTarget(c) == result[c]

\* the fields the ClientTrace callbacks stamp
CallbackFields == {"DNSStart", "DNSDone", "ConnectStart", "ConnectDone",
                   "TLSHandshakeStart", "TLSHandshakeDone", "FirstByte"}

\* a completion step that returns early on an error, before stamping End
SealUnlessError(r, t, e, hasResp) ==
    IF e # NoError THEN r
    ELSE LET ended == [r EXCEPT !.End = t, !.Error = e]
         IN  IF hasResp /\ ended.FirstByte = 0
             THEN [ended EXCEPT !.FirstByte = ended.End]
             ELSE ended

\* a completion step that sets FirstByte whenever a response was obtained
SealOverwritingFirstByte(r, t, e, hasResp) ==
    LET ended == [r EXCEPT !.End = t, !.Error = e]
    IN  IF hasResp THEN [ended EXCEPT !.FirstByte = ended.End] ELSE ended

\* a completion step that stamps End on every milestone still unset
SealFillingUnset(r, t, e, hasResp) ==
    LET ended == [r EXCEPT !.End = t, !.Error = e]
    IN  [f \in DOMAIN ended |->
            IF f \in CallbackFields /\ ended[f] = 0 THEN ended.End ELSE ended[f]]

\* the completion step on the Result: End, Error, then the FirstByte fallback
Seal(r, t, e, hasResp) ==
    LET ended == [r EXCEPT !.End = t, !.Error = e]
    IN  IF hasResp /\ ended.FirstByte = 0
        THEN [ended EXCEPT !.FirstByte = ended.End]
        ELSE ended

\* a completion step that leaves resp.Request as the base transport set it
RebindNothing(rsp, p) == rsp

\* the completion step on the response: the result stored on resp.Request
Rebind(rsp, p) ==
    IF rsp.present /\ ~rsp.Request.isNil
    THEN [rsp EXCEPT !.Request = WithContext(rsp.Request, WithValue(rsp.Request.ctx, resultKey, p))]
    ELSE rsp

\* a return that replaces the error of the wrapped transport by one of its own
ReturnWrapped(rsp, e) == <<rsp, IF e # NoError THEN "ferret: request failed" ELSE e>>

\* return resp, err
Return(rsp, e) == <<rsp, e>>

\* the requests a caller may pass in: one with a background context, or the
\* request of an earlier response (carrying that call's result)
CallerRequests ==
    {Request(<<>>)}
    \cup {ret[d][1].Request : d \in {x \in Calls : pc[x] = "returned" /\ ret[x][1].present
                                                  /\ ~ret[x][1].Request.isNil}}

Begin(c, creq) ==
    /\ pc[c] = "idle"
    /\ LET p   == NewResult(c)
           req == WithContext(creq, Attach(creq.ctx, p, c))
       IN  /\ heap' = [heap EXCEPT ![p] = Result(now)]
           /\ writers' = [writers EXCEPT ![p] = @ \cup {c}]
           /\ result' = [result EXCEPT ![c] = p]
           /\ reqStack' = [reqStack EXCEPT ![c] = <<req>>]
    /\ callerReq' = [callerReq EXCEPT ![c] = WithContextReceiver(creq, Attach(creq.ctx, NewResult(c), c))]
    /\ invoked' = [invoked EXCEPT ![c] = @ + 1]
    /\ clockLog' = [clockLog EXCEPT ![c] = <<Reading("Start", now)>>]
    /\ pc' = [pc EXCEPT ![c] = IF layers = <<>> THEN "inBase" ELSE "enter"]
    /\ UNCHANGED <<now, layers, resp, err, baseOut, ret, events, seals, emitted, got, q, view,
                   text, json, gauge, counter, spans, legacy, opts, built, cliVars>>

\* a ClientTrace callback invoked by the engine while f.next.RoundTrip runs
TraceCallback(c, f) ==
    /\ pc[c] = "inBase"
    /\ events < MaxEvents
    /\ heap' = [heap EXCEPT ![TraceTarget(c)][f] = now]
    /\ writers' = [writers EXCEPT ![TraceTarget(c)] = @ \cup {c}]
    /\ events' = events + 1
    /\ clockLog' = [clockLog EXCEPT ![c] = Append(@, Reading(f, now))]
    /\ UNCHANGED <<now, layers, pc, callerReq, result, reqStack, resp, err, baseOut, ret,
                   seals, emitted, got, q, view, text, json,
                   invoked, gauge, counter, spans, legacy, opts, built, cliVars>>

\* the engine invokes a ClientTrace callback it has invoked before for this
\* request (a second DNS lookup, a second connect attempt)
TraceCallbackAgain(c, f) ==
    /\ pc[c] = "inBase"
    /\ heap[TraceTarget(c)][f] # 0
    /\ events < MaxEvents + MaxRepeats
    /\ heap' = [heap EXCEPT ![TraceTarget(c)][f] = now]
    /\ writers' = [writers EXCEPT ![TraceTarget(c)] = @ \cup {c}]
    /\ events' = events + 1
    /\ clockLog' = [clockLog EXCEPT ![c] = Append(@, Reading(f, now))]
    /\ UNCHANGED <<now, layers, pc, callerReq, result, reqStack, resp, err, baseOut, ret,
                   seals, emitted, got, q, view, text, json,
                   invoked, gauge, counter, spans, legacy, opts, built, cliVars>>

\* a ClientTrace callback invoked after the base transport's RoundTrip returned
\* (net/http/httptrace: "some may be called after the request has completed or failed")
LateTraceCallback(c, f) ==
    /\ pc[c] \in {"exit", "complete", "returned"}
    /\ events < MaxEvents
    /\ heap' = [heap EXCEPT ![TraceTarget(c)][f] = now]
    /\ writers' = [writers EXCEPT ![TraceTarget(c)] = @ \cup {c}]
    /\ events' = events + 1
    /\ clockLog' = [clockLog EXCEPT ![c] = Append(@, Reading(f, now))]
    /\ UNCHANGED <<now, layers, pc, callerReq, result, reqStack, resp, err, baseOut, ret,
                   seals, emitted, got, q, view, text, json,
                   invoked, gauge, counter, spans, legacy, opts, built, cliVars>>

\* the base transport returns: a response (whose Request is the request it was
\* given, another request, or nil) or an error
BaseOutcomes(c) ==
    IF pc[c] # "inBase" THEN {}
    ELSE {<<[Response(c, rq) EXCEPT !.StatusCode = code], NoError>> :
              rq \in {reqStack[c][Len(reqStack[c])], Request(<<>>), NilReq}, code \in StatusCodes}
         \cup {<<NoResp, e>> : e \in Errors}

BaseReturn(c, out) ==
    /\ pc[c] = "inBase"
    /\ out \in BaseOutcomes(c)
    /\ resp' = [resp EXCEPT ![c] = out[1]]
    /\ err' = [err EXCEPT ![c] = out[2]]
    /\ baseOut' = [baseOut EXCEPT ![c] = out]
    /\ reqStack' = [reqStack EXCEPT ![c] = SubSeq(@, 1, Len(@) - 1)]
    /\ pc' = [pc EXCEPT ![c] = IF Len(reqStack[c]) = 1 THEN "complete" ELSE "exit"]
    /\ UNCHANGED <<now, layers, heap, writers, callerReq, result, ret, events, seals,
                   emitted, got, q, view, text, json,
                   invoked, gauge, counter, spans, legacy, opts, built, clockLog, cliVars>>

\* a RoundTrip that starts over when the wrapped transport returned an error
RetryAfterError(e) == IF e # NoError THEN "idle" ELSE "returned"

\* where RoundTrip goes once f.next.RoundTrip returned and the Result is
\* completed: it returns, whatever the error
AfterRoundTrip(e) == "returned"

Complete(c) ==
    /\ pc[c] = "complete"
    /\ heap' = [heap EXCEPT ![result[c]] = Seal(@, now, err[c], resp[c].present)]
    /\ writers' = [writers EXCEPT ![result[c]] = @ \cup {c}]
    /\ resp' = [resp EXCEPT ![c] = Rebind(@, result[c])]
    /\ ret' = [ret EXCEPT ![c] = Return(resp'[c], err[c])]
    /\ seals' = [seals EXCEPT ![c] = @ + 1]
    /\ pc' = [pc EXCEPT ![c] = AfterRoundTrip(err[c])]
    /\ clockLog' = [clockLog EXCEPT ![c] = Append(@, Reading("End", now))]
    /\ UNCHANGED <<now, layers, callerReq, result, reqStack, err, baseOut, events,
                   emitted, got, q, view, text, json,
                   invoked, gauge, counter, spans, legacy, opts, built, cliVars>>

\* ------------------------------------- exporter transports (f.next layers)
\* what an exporter emits from the Result it read
Emission(layer, p) ==
    [layer |-> layer, rec |-> p, End |-> heap[p].End, FirstByte |-> heap[p].FirstByte,
     total |-> TotalDuration(heap[p])]

\* prometheusTransport.RoundTrip, the result it reads after t.next.RoundTrip returned
PrometheusResult(req, rsp) ==
    IF GetResult(req) = 0 /\ rsp.present /\ ~rsp.Request.isNil
    THEN GetResult(rsp.Request)
    ELSE GetResult(req)

\* an OpenTelemetry layer that looks the result up on the request it was given
OtelResultFromRequest(req, rsp) == GetResult(req)

\* otelTransport.RoundTrip, the result it reads after t.next.RoundTrip returned
OtelResult(req, rsp) ==
    IF rsp.present /\ ~rsp.Request.isNil THEN GetResult(rsp.Request) ELSE 0

\* return resp, err of a layer
LayerReturn(rsp, e) == <<rsp, e>>

\* the request a layer hands to its t.next
LayerRequest(layer, req, c) ==
    IF layer = "otel" THEN WithContext(req, WithValue(req.ctx, spanKey, c)) ELSE req

\* a span as the tracer's Start returns it
NewSpan == [ended |-> 0, status |-> "Unset"]

\* span.SetStatus, as the span of the tests records it: the last call wins
SetStatus(span, code) == [span EXCEPT !.status = code]

StatusBadRequest == 400

\* a status set from the error alone
SetSpanStatusFromError(span, rsp, e) ==
    LET afterResp == IF rsp.present THEN SetStatus(span, "Ok") ELSE span
    IN  IF e # NoError THEN SetStatus(afterResp, "Error") ELSE afterResp

\* the SetStatus calls of otelTransport.RoundTrip: by the status code when
\* there is a response, then Error when there is an error
SetSpanStatus(span, rsp, e) ==
    LET afterResp == IF rsp.present
                     THEN SetStatus(span, IF rsp.StatusCode >= StatusBadRequest THEN "Error" ELSE "Ok")
                     ELSE span
    IN  IF e # NoError THEN SetStatus(afterResp, "Error") ELSE afterResp

\* defer span.End()
EndSpan(span) == [span EXCEPT !.ended = @ + 1]

\* labels that take the status from the response code
LabelsFromResponse(rsp, e) ==
    [code |-> IF rsp.present THEN rsp.StatusCode ELSE 0,
     status |-> IF rsp.present /\ rsp.StatusCode < StatusBadRequest THEN "success" ELSE "error"]

\* the code and status labels of prometheusTransport.RoundTrip
Labels(rsp, e) ==
    [code |-> IF rsp.present THEN rsp.StatusCode ELSE 0,
     status |-> IF e # NoError THEN "error" ELSE "success"]

\* an InFlightGauge.Dec() that is skipped when the request failed
GaugeDecOnSuccess(g, e) == IF e # NoError THEN g ELSE g - 1

\* defer t.config.InFlightGauge.Dec(): runs on every return
GaugeDec(g, e) == g - 1

\* a layer's RoundTrip up to its call of t.next.RoundTrip
EnterLayer(c) ==
    /\ pc[c] = "enter"
    /\ LET d == Len(reqStack[c])
       IN  /\ reqStack' = [reqStack EXCEPT ![c] = Append(@, LayerRequest(layers[d], @[d], c))]
           /\ pc' = [pc EXCEPT ![c] = IF d = Len(layers) THEN "inBase" ELSE "enter"]
           /\ gauge' = IF layers[d] = "prometheus" THEN gauge + 1 ELSE gauge
           /\ spans' = [spans EXCEPT ![c] = IF layers[d] = "otel" THEN Append(@, NewSpan) ELSE @]
    /\ UNCHANGED <<now, layers, heap, writers, callerReq, result, resp, err, baseOut, ret,
                   events, seals, emitted, got, q, view, text, json,
                   invoked, counter, legacy, opts, built, clockLog, cliVars>>

\* a layer's RoundTrip after t.next.RoundTrip returned: read the result, emit, return resp, err
ExitLayer(c) ==
    /\ pc[c] = "exit"
    /\ LET d == Len(reqStack[c])
           p == IF layers[d] = "prometheus" THEN PrometheusResult(reqStack[c][d], resp[c])
                ELSE OtelResult(reqStack[c][d], resp[c])
       IN  /\ emitted' = [emitted EXCEPT ![c] =
                             IF p # 0 THEN Append(@, Emission(layers[d], p)) ELSE @]
           /\ reqStack' = [reqStack EXCEPT ![c] = SubSeq(@, 1, d - 1)]
           /\ pc' = [pc EXCEPT ![c] = IF d = 1 THEN "complete" ELSE "exit"]
           /\ counter' = [counter EXCEPT ![c] =
                             IF layers[d] = "prometheus" /\ p # 0
                             THEN Append(@, Labels(resp[c], err[c])) ELSE @]
           /\ gauge' = IF layers[d] = "prometheus" THEN GaugeDec(gauge, err[c]) ELSE gauge
           /\ spans' = [spans EXCEPT ![c] =
                           IF layers[d] = "otel"
                           THEN <<EndSpan(SetSpanStatus(@[1], resp[c], err[c]))>> ELSE @]
    /\ resp' = [resp EXCEPT ![c] = LayerReturn(resp[c], err[c])[1]]
    /\ err' = [err EXCEPT ![c] = LayerReturn(resp[c], err[c])[2]]
    /\ UNCHANGED <<now, layers, heap, writers, callerReq, result, baseOut, ret,
                   events, seals, got, q, view, text, json,
                   invoked, legacy, opts, built, clockLog, cliVars>>

\* ----------------------------------------------------------- the caller
\* the handles a caller holds after RoundTrip returned
CallerHandles(c) == {NilReq, callerReq[c], ret[c][1].Request}

NotAsked == [asked |-> FALSE, req |-> NilReq, res |-> 0]

\* time passes between two readings of f.clock
Tick ==
    /\ now < MaxTime
    /\ now' = now + 1
    /\ UNCHANGED <<layers, heap, writers, pc, callerReq, result, reqStack, resp, err,
                   baseOut, ret, events, seals, emitted, got, q, view, text, json,
                   invoked, gauge, counter, spans, legacy, opts, built, clockLog, cliVars>>

\* ------------------------------------------------- New and its options
\* n seconds, in clock units
Seconds(n) == n * (Second \div UnitNs)

\* an Option: its constructor and the arguments it was built with
Option(name, flag, d1, d2) == [name |-> name, flag |-> flag, d1 |-> d1, d2 |-> d2]

WithKeepAlives(enabled) == Option("WithKeepAlives", enabled, 0, 0)

WithTimeout(connect, total) == Option("WithTimeout", FALSE, connect, total)

WithTransport == Option("WithTransport", FALSE, 0, 0)

WithDialer == Option("WithDialer", FALSE, 0, 0)

WithTLSHandshakeTimeout(timeout) == Option("WithTLSHandshakeTimeout", FALSE, timeout, 0)

WithPrometheus == Option("WithPrometheus", FALSE, 0, 0)

WithOpenTelemetry == Option("WithOpenTelemetry", FALSE, 0, 0)

\* the net.Dialer a caller passes to WithDialer
CustomDialer == [Timeout |-> Seconds(1), KeepAlive |-> 0]

\* f := &Ferret{...} of New; next is the chain of transports below Ferret:
\* the wrappers, outermost first, and the transport at the bottom
DefaultFerret ==
    [next |-> [wrappers |-> <<>>, base |-> "nil"],
     dialer |-> [Timeout |-> Seconds(30), KeepAlive |-> Seconds(30)],
     disableKeepAlives |-> FALSE,
     tlsHandshakeTimeout |-> Seconds(10)]

\* baseTransport = &http.Transport{...}, from the fields f has at that point
BaseTransport(f) ==
    [DialContext |-> "f.dialContext",
     TLSHandshakeTimeout |-> f.tlsHandshakeTimeout,
     DisableKeepAlives |-> f.disableKeepAlives]

\* opt(f)
Apply(opt, f) ==
    CASE opt.name = "WithKeepAlives" -> [f EXCEPT !.disableKeepAlives = ~opt.flag]
      [] opt.name = "WithTimeout" ->
            [f EXCEPT !.dialer = [Timeout |-> opt.d1,
                                  KeepAlive |-> IF ~f.disableKeepAlives THEN opt.d1
                                                ELSE 0 - Seconds(1)]]
      [] opt.name = "WithTransport" -> [f EXCEPT !.next = [wrappers |-> <<>>, base |-> "custom"]]
      [] opt.name = "WithDialer" -> [f EXCEPT !.dialer = CustomDialer]
      [] opt.name = "WithTLSHandshakeTimeout" -> [f EXCEPT !.tlsHandshakeTimeout = opt.d1]
      [] opt.name = "WithPrometheus" ->
            [f EXCEPT !.next = [@ EXCEPT !.wrappers = <<"prometheus">> \o @]]
      [] opt.name = "WithOpenTelemetry" ->
            [f EXCEPT !.next = [@ EXCEPT !.wrappers = <<"otel">> \o @]]

\* for _, opt := range opts { opt(f) }
RECURSIVE ApplyAll(_, _)
ApplyAll(os, f) == IF os = <<>> THEN f ELSE ApplyAll(Tail(os), Apply(os[1], f))

\* New(opts...): the Ferret it returns and the http.Transport it built, which
\* is built, and set as f.next, before the options are applied
New(os) ==
    LET f0   == DefaultFerret
        base == BaseTransport(f0)
        f1   == [f0 EXCEPT !.next.base = "default"]
    IN  [done |-> TRUE, f |-> ApplyAll(os, f1), transport |-> base]

\* the options a caller may pass
Options ==
    {WithKeepAlives(b) : b \in BOOLEAN}
    \cup {WithTimeout(c, t) : c \in {Seconds(2), Seconds(5)}, t \in {0, Seconds(30)}}
    \cup {WithTLSHandshakeTimeout(d) : d \in {Seconds(5), Seconds(10)}}
    \cup {WithTransport, WithDialer, WithPrometheus, WithOpenTelemetry}

RECURSIVE OptionLists(_)
OptionLists(n) ==
    IF n = 0 THEN {<<>>}
    ELSE OptionLists(n - 1)
         \cup {Append(os, o) : os \in {x \in OptionLists(n - 1) : Len(x) = n - 1}, o \in Options}

\* New has not been called
NotBuilt == [done |-> FALSE, f |-> DefaultFerret, transport |-> BaseTransport(DefaultFerret)]

\* ------------------------------------------------- the command line tool
\* a RequestResult, with the fields runSimpleMode and generateSummary read
RequestResult(i, d, e) == [Iteration |-> i, Duration |-> d, Error |-> e]

\* the sequence s without its i-th element
Without(s, i) == SubSeq(s, 1, i - 1) \o SubSeq(s, i + 1, Len(s))

\* sort.Slice(successful, successful[i] < successful[j])
RECURSIVE SortDurations(_)
SortDurations(ds) ==
    IF ds = <<>> THEN <<>>
    ELSE LET i == CHOOSE k \in 1..Len(ds) : \A l \in 1..Len(ds) : ds[k] <= ds[l]
         IN  <<ds[i]>> \o SortDurations(Without(ds, i))

\* sort.Slice(results, results[i].Iteration < results[j].Iteration)
RECURSIVE SortByIteration(_)
SortByIteration(rs) ==
    IF rs = <<>> THEN <<>>
    ELSE LET i == CHOOSE k \in 1..Len(rs) : \A l \in 1..Len(rs) : rs[k].Iteration <= rs[l].Iteration
         IN  <<rs[i]>> \o SortByIteration(Without(rs, i))

RECURSIVE Sum(_)
Sum(ds) == IF ds = <<>> THEN 0 ELSE ds[1] + Sum(Tail(ds))

\* the durations of every result, failed ones included
AllDurations(rs) == [k \in 1..Len(rs) |-> rs[k].Duration]

\* the loop of generateSummary: the durations of the results without an error
Successful(rs) ==
    LET ok == SelectSeq(rs, LAMBDA r : r.Error = "")
    IN  [k \in 1..Len(ok) |-> ok[k].Duration]

\* int(float64(n) * 0.9), capped at n - 1 (0-based index)
P90Index(n) == IF (n * 9) \div 10 >= n THEN n - 1 ELSE (n * 9) \div 10

\* int(float64(n) * 0.99), capped at n - 1 (0-based index)
P99Index(n) == IF (n * 99) \div 100 >= n THEN n - 1 ELSE (n * 99) \div 100

\* the Summary before any statistics are computed
EmptySummary(n) ==
    [Iterations |-> n, Successful |-> 0, Failed |-> 0, Min |-> 0, Max |-> 0,
     Average |-> 0, Median |-> 0, P90 |-> 0, P99 |-> 0]

generateSummary(rs) ==
    LET successful == SortDurations(Successful(rs))
        n          == Len(successful)
        counted    == [EmptySummary(Len(rs)) EXCEPT
                          !.Successful = n,
                          !.Failed = Len(SelectSeq(rs, LAMBDA r : r.Error # ""))]
    IN  IF n = 0 THEN counted
        ELSE [counted EXCEPT
                 !.Min = successful[1],
                 !.Max = successful[n],
                 !.Average = Sum(successful) \div n,
                 !.Median = IF n % 2 = 0
                            THEN (successful[n \div 2] + successful[n \div 2 + 1]) \div 2
                            ELSE successful[n \div 2 + 1],
                 !.P90 = successful[P90Index(n) + 1],
                 !.P99 = successful[P99Index(n) + 1]]

\* generateSummary has not been called
NoSummary == EmptySummary(0)

\* the iterations a run may have
Iterations == 0..(MaxIterations - 1)

\* a goroutine of runSimpleMode: its position and its local variable result
Goroutine(at, r) == [pc |-> at, result |-> r]

NotStarted == Goroutine("none", RequestResult(0, 0, ""))

\* a semaphore that lets one more goroutine in
SemCapPlusOne(c) == c + 1

\* make(chan struct{}, config.Concurrency)
SemCap(c) == c

\* make(chan RequestResult, config.Iterations)
ChanCap(n) == n

\* the command line tool is not running
IdleCLI ==
    /\ config = [Iterations |-> 0, Concurrency |-> 0]
    /\ spawned = 0
    /\ worker = [i \in Iterations |-> NotStarted]
    /\ sem = 0
    /\ wg = 0
    /\ resultsChan = <<>>
    /\ closed = FALSE
    /\ results = <<>>
    /\ mainPc = "idle"
    /\ summary = NoSummary

\* for i := 0; i < config.Iterations; i++ { wg.Add(1); go func(iteration int) {...}(i) }
Spawn ==
    /\ mainPc = "spawn"
    /\ spawned < config.Iterations
    /\ wg' = wg + 1
    /\ worker' = [worker EXCEPT ![spawned] = Goroutine("acquire", @.result)]
    /\ spawned' = spawned + 1
    /\ UNCHANGED <<transportVarsOnly, q, view, text, json, config, sem, resultsChan, closed,
                   results, mainPc, summary>>

\* go func() { wg.Wait(); close(resultsChan) }(), after the loop
StartCloser ==
    /\ mainPc = "spawn"
    /\ spawned = config.Iterations
    /\ mainPc' = "collect"
    /\ UNCHANGED <<transportVarsOnly, q, view, text, json, config, spawned, worker, sem, wg,
                   resultsChan, closed, results, summary>>

\* sem <- struct{}{}
Acquire(i) ==
    /\ worker[i].pc = "acquire"
    /\ sem < SemCap(config.Concurrency)
    /\ sem' = sem + 1
    /\ worker' = [worker EXCEPT ![i] = Goroutine("perform", @.result)]
    /\ UNCHANGED <<transportVarsOnly, q, view, text, json, config, spawned, wg, resultsChan,
                   closed, results, mainPc, summary>>

\* what performRequest may return for an iteration when client.Do takes at most
\* longest: an error before the request is sent (no Duration), an error of
\* client.Do, or a response
performRequest(i, longest) ==
    {RequestResult(i, 0, "invalid request")}
    \cup {RequestResult(i, d, "request failed") : d \in 1..longest}
    \cup {RequestResult(i, d, "") : d \in 1..longest}

\* result := performRequest(client, config.URL, config.Method, iteration)
Perform(i, r) ==
    /\ worker[i].pc = "perform"
    /\ worker' = [worker EXCEPT ![i] = Goroutine("send", r)]
    /\ UNCHANGED <<transportVarsOnly, q, view, text, json, config, spawned, sem, wg,
                   resultsChan, closed, results, mainPc, summary>>

\* resultsChan <- result
Send(i) ==
    /\ worker[i].pc = "send"
    /\ Len(resultsChan) < ChanCap(config.Iterations)
    /\ resultsChan' = Append(resultsChan, worker[i].result)
    /\ worker' = [worker EXCEPT ![i] = Goroutine("release", @.result)]
    /\ UNCHANGED <<transportVarsOnly, q, view, text, json, config, spawned, sem, wg,
                   closed, results, mainPc, summary>>

\* the deferred func() { <-sem }()
Release(i) ==
    /\ worker[i].pc = "release"
    /\ sem' = sem - 1
    /\ worker' = [worker EXCEPT ![i] = Goroutine("wgDone", @.result)]
    /\ UNCHANGED <<transportVarsOnly, q, view, text, json, config, spawned, wg, resultsChan,
                   closed, results, mainPc, summary>>

\* the deferred wg.Done()
Done(i) ==
    /\ worker[i].pc = "wgDone"
    /\ wg' = wg - 1
    /\ worker' = [worker EXCEPT ![i] = Goroutine("done", @.result)]
    /\ UNCHANGED <<transportVarsOnly, q, view, text, json, config, spawned, sem, resultsChan,
                   closed, results, mainPc, summary>>

\* wg.Wait() returns and the closer goroutine closes the channel
Close ==
    /\ mainPc = "collect"
    /\ ~closed
    /\ wg = 0
    /\ closed' = TRUE
    /\ UNCHANGED <<transportVarsOnly, q, view, text, json, config, spawned, worker, sem, wg,
                   resultsChan, results, mainPc, summary>>

\* for result := range resultsChan { results = append(results, result) }
Receive ==
    /\ mainPc = "collect"
    /\ resultsChan # <<>>
    /\ results' = Append(results, Head(resultsChan))
    /\ resultsChan' = Tail(resultsChan)
    /\ UNCHANGED <<transportVarsOnly, q, view, text, json, config, spawned, worker, sem, wg,
                   closed, mainPc, summary>>

\* the range loop ends on the closed, drained channel; the results are sorted
\* by iteration and summarised
Finish ==
    /\ mainPc = "collect"
    /\ resultsChan = <<>>
    /\ closed
    /\ results' = SortByIteration(results)
    /\ summary' = generateSummary(SortByIteration(results))
    /\ mainPc' = "done"
    /\ UNCHANGED <<transportVarsOnly, q, view, text, json, config, spawned, worker, sem, wg,
                   resultsChan, closed>>

\* generateSummary called on its own
Summarize ==
    /\ mainPc = "summary"
    /\ summary' = generateSummary(results)
    /\ mainPc' = "done"
    /\ UNCHANGED <<transportVarsOnly, q, view, text, json, config, spawned, worker, sem, wg,
                   resultsChan, closed, results>>

\* ------------------------------------------------------ specification
\* the deprecated accessors have not been called
NotRead == [read |-> FALSE, ReqDuration |-> 0, ConnDuration |-> 0, Duration |-> 0]

\* New(opts...): the exporter layers the options wrapped around the base transport
LayerConfigs == {<<>>, <<"prometheus">>, <<"otel">>, <<"otel", "prometheus">>}

InitTransport(ls) ==
    /\ now = 1
    /\ layers = ls
    /\ heap = [p \in Calls |-> Result(0)]
    /\ writers = [p \in Calls |-> {}]
    /\ pc = [c \in Calls |-> "idle"]
    /\ callerReq = [c \in Calls |-> NilReq]
    /\ result = [c \in Calls |-> 0]
    /\ reqStack = [c \in Calls |-> <<>>]
    /\ resp = [c \in Calls |-> NoResp]
    /\ err = [c \in Calls |-> NoError]
    /\ baseOut = [c \in Calls |-> <<NoResp, NoError>>]
    /\ ret = [c \in Calls |-> <<NoResp, NoError>>]
    /\ events = 0
    /\ seals = [c \in Calls |-> 0]
    /\ emitted = [c \in Calls |-> <<>>]
    /\ invoked = [c \in Calls |-> 0]
    /\ gauge = 0
    /\ counter = [c \in Calls |-> <<>>]
    /\ spans = [c \in Calls |-> <<>>]
    /\ legacy = NotRead
    /\ built = NotBuilt
    /\ clockLog = [c \in Calls |-> <<>>]

Init ==
    /\ \E ls \in LayerConfigs : InitTransport(ls)
    /\ opts = <<>>
    /\ got = NotAsked
    /\ q = Result(0)
    /\ view = <<>> /\ text = <<>> /\ json = <<>>
    /\ IdleCLI

Next ==
    \/ \E c \in Calls : \E creq \in CallerRequests : Begin(c, creq)
    \/ \E c \in Calls : EnterLayer(c)
    \/ \E c \in Calls : \E f \in CallbackFields : TraceCallback(c, f)
    \/ \E c \in Calls : \E f \in CallbackFields : LateTraceCallback(c, f)
    \/ \E c \in Calls : \E out \in BaseOutcomes(c) : BaseReturn(c, out)
    \/ \E c \in Calls : ExitLayer(c)
    \/ \E c \in Calls : Complete(c)
    \/ Tick

Spec == Init /\ [][Next]_vars

\* ------------------------------------------- one request and its callbacks
InitTrace ==
    /\ InitTransport(<<>>)
    /\ opts = <<>>
    /\ got = NotAsked
    /\ q = Result(0)
    /\ view = <<>> /\ text = <<>> /\ json = <<>>
    /\ IdleCLI

NextTrace ==
    \/ Begin(1, Request(<<>>))
    \/ \E f \in CallbackFields : TraceCallback(1, f)
    \/ \E f \in CallbackFields : TraceCallbackAgain(1, f)
    \/ \E out \in BaseOutcomes(1) : BaseReturn(1, out)
    \/ Complete(1)
    \/ Tick

SpecTrace == InitTrace /\ [][NextTrace]_vars

\* ------------------------------------ the deprecated accessors of Ferret
\* an accessor that reports the total of the first request's Result
DurationOfFirstResult(h) == TotalDuration(h[1])

\* Ferret.Duration, on a transport whose requests have the Results h
Duration(h) == 0

\* Ferret.ReqDuration
ReqDuration(h) == 0

\* Ferret.ConnDuration
ConnDuration(h) == 0

\* the caller reads the three accessors
LegacyAccessors ==
    /\ ~legacy.read
    /\ legacy' = [read |-> TRUE, ReqDuration |-> ReqDuration(heap),
                  ConnDuration |-> ConnDuration(heap), Duration |-> Duration(heap)]
    /\ UNCHANGED <<now, layers, heap, writers, pc, callerReq, result, reqStack, resp, err,
                   baseOut, ret, events, seals, emitted, got, q, view, text, json,
                   invoked, gauge, counter, spans, opts, built, clockLog, cliVars>>

\* a transport built by New() executing requests while the accessors are read
NextLegacy ==
    \/ \E c \in Calls : \E creq \in CallerRequests : Begin(c, creq)
    \/ \E c \in Calls : \E f \in CallbackFields : TraceCallback(c, f)
    \/ \E c \in Calls : \E out \in BaseOutcomes(c) : BaseReturn(c, out)
    \/ \E c \in Calls : Complete(c)
    \/ Tick
    \/ LegacyAccessors

SpecLegacy == InitTrace /\ [][NextLegacy]_vars

\* ------------------------------------------------------ New on its own
InitNew ==
    /\ InitTransport(<<>>)
    /\ opts \in OptionLists(MaxOpts)
    /\ got = NotAsked
    /\ q = Result(0)
    /\ view = <<>> /\ text = <<>> /\ json = <<>>
    /\ IdleCLI

\* the caller calls New(opts...)
Construct ==
    /\ ~built.done
    /\ built' = New(opts)
    /\ UNCHANGED <<now, layers, heap, writers, pc, callerReq, result, reqStack, resp, err,
                   baseOut, ret, events, seals, emitted, got, q, view, text, json,
                   invoked, gauge, counter, spans, legacy, opts, clockLog, cliVars>>

NextNew == Construct

SpecNew == InitNew /\ [][NextNew]_vars

\* ---------------------------------------- the methods of Result on their own
\* the Result of TestResultPhaseDurations, with now one clock unit after the zero time
PhaseExample ==
    [Start |-> 1, DNSStart |-> 1 + Ms(10), DNSDone |-> 1 + Ms(20), ConnectStart |-> 1 + Ms(20),
     TLSHandshakeStart |-> 1 + Ms(30), TLSHandshakeDone |-> 1 + Ms(50),
     ConnectDone |-> 1 + Ms(50), FirstByte |-> 1 + Ms(100), End |-> 1 + Ms(150),
     Error |-> NoError]

\* any Result: every timestamp unset or set, in any order, with or without an
\* error (whose message may be empty); and the Result of the tests
Results ==
    {[Start |-> a[1], ConnectDone |-> a[2], FirstByte |-> a[3], End |-> a[4],
      DNSStart |-> a[5], DNSDone |-> a[6], ConnectStart |-> a[7],
      TLSHandshakeStart |-> a[8], TLSHandshakeDone |-> a[9], Error |-> e] :
        a \in [1..9 -> 0..MaxStamp], e \in {NoError, "refused", EmptyMessage}}
    \cup {PhaseExample}

InitResult ==
    /\ InitTransport(<<>>)
    /\ opts = <<>>
    /\ got = NotAsked
    /\ q \in Results
    /\ view = <<>> /\ text = <<>> /\ json = <<>>
    /\ IdleCLI

\* the caller calls every duration method of q, a first time or again
QueryDurations ==
    /\ text = <<>> /\ json = <<>>
    /\ Len(view) < MaxQueries
    /\ view' = Append(view, Durations(q))
    /\ q' = Receiver(q)
    /\ UNCHANGED <<transportVars, text, json>>

\* the caller calls q.String(), a first time or again
QueryString ==
    /\ view = <<>> /\ json = <<>>
    /\ Len(text) < MaxQueries
    /\ text' = Append(text, String(q))
    /\ q' = Receiver(q)
    /\ UNCHANGED <<transportVars, view, json>>

\* the caller calls q.MarshalJSON(), a first time or again
QueryJSON ==
    /\ view = <<>> /\ text = <<>>
    /\ Len(json) < MaxQueries
    /\ json' = Append(json, MarshalJSON(q))
    /\ q' = Receiver(q)
    /\ UNCHANGED <<transportVars, view, text>>

NextResult == QueryDurations \/ QueryString \/ QueryJSON

SpecResult == InitResult /\ [][NextResult]_vars

\* ------------------------------------------------ GetResult on its own
\* the entries a request context may hold
Entries ==
    {Entry(resultKey, p) : p \in Calls}
    \cup {Entry(traceKey, 1), Entry(spanKey, 1), Entry(userKey, 0)}

RECURSIVE Contexts(_)
Contexts(n) ==
    IF n = 0 THEN {<<>>}
    ELSE Contexts(n - 1) \cup {Append(ctx, e) : ctx \in {x \in Contexts(n - 1) : Len(x) = n - 1}, e \in Entries}

\* nil, or a request with any context of at most MaxCtx entries
Handles == {NilReq} \cup {Request(ctx) : ctx \in Contexts(MaxCtx)}

InitLookup ==
    /\ InitTransport(<<>>) /\ q = Result(0) /\ view = <<>> /\ text = <<>> /\ json = <<>>
    /\ opts = <<>>
    /\ IdleCLI
    /\ got \in {[asked |-> FALSE, req |-> h, res |-> 0] : h \in Handles}

\* the caller calls GetResult on the handle
Lookup ==
    /\ ~got.asked
    /\ got' = [asked |-> TRUE, req |-> got.req, res |-> GetResult(got.req)]
    /\ UNCHANGED <<now, layers, heap, writers, pc, callerReq, result, reqStack, resp, err,
                   baseOut, ret, events, seals, emitted, q, view, text, json,
                   invoked, gauge, counter, spans, legacy, opts, built, clockLog, cliVars>>

NextLookup == Lookup

SpecLookup == InitLookup /\ [][NextLookup]_vars

\* ================================================================ claims
Returned(c) == pc[c] = "returned"

\* the innermost entry of ctx under resultKey, as a set (empty when there is none)
Carried(ctx) ==
    {ctx[i].val : i \in {j \in 1..Len(ctx) :
                            /\ ctx[j].key = resultKey
                            /\ \A k \in (j + 1)..Len(ctx) : ctx[k].key # resultKey}}

\* C1: every derived duration of every Result (timestamps set or unset, in any
\* order) is >= 0, a span that would be negative being reported as zero.
C1_DurationsNonNegative ==
    view # <<>> => \A n \in DurationNames : view[1][n] >= 0

\* C2: when the wrapped transport returns an error and no response, the call's
\* Result, with End and Error set, is retrievable by GetResult on a handle the
\* caller holds (the request it passed to RoundTrip).
C2_FailedRecordRetrievable ==
    \A c \in Calls :
        (Returned(c) /\ ~ret[c][1].present /\ ret[c][2] # NoError) =>
            /\ \E h \in CallerHandles(c) : GetResult(h) = result[c]
            /\ heap[result[c]].End # 0
            /\ heap[result[c]].Error # NoError

\* C3: whenever the Prometheus or OpenTelemetry transport reads a request's
\* Result to emit from it, End has already been stamped on that Result, and
\* the total it emits is End - Start of the finished request.
C3_ExportersReadSealed ==
    \A c \in Calls : \A i \in 1..Len(emitted[c]) :
        /\ emitted[c][i].End # 0
        /\ Returned(c) => emitted[c][i].total = TotalDuration(heap[emitted[c][i].rec])

\* C4: once End has been stamped on a Result, no field of that Result is
\* modified again, whatever the interleaving of callbacks and completion step.
C4_SealedIsImmutable ==
    [][\A p \in Calls : heap[p].End # 0 => heap'[p] = heap[p]]_vars

\* C5: every RoundTrip reaches its completion step exactly once: when it has
\* returned (response, error or cancellation), End is stamped and the error of
\* the wrapped transport recorded, once; no returned call has End unset.
C5_SealedExactlyOnce ==
    \A c \in Calls :
        /\ seals[c] <= 1
        /\ Returned(c) =>
              /\ seals[c] = 1
              /\ heap[result[c]].End # 0
              /\ heap[result[c]].Error = baseOut[c][2]

C5_Witness ==
    \E c \in Calls :
        /\ Returned(c) /\ baseOut[c][2] = "canceled"
        /\ heap[result[c]].End # 0 /\ heap[result[c]].Error = "canceled"

\* C6: RoundTrip returns the response object and the error value the wrapped
\* base transport returned, unchanged, with or without exporter layers.
C6_Transparent ==
    \A c \in Calls :
        Returned(c) =>
            /\ ret[c][1].present = baseOut[c][1].present
            /\ ret[c][1].id = baseOut[c][1].id
            /\ ret[c][2] = baseOut[c][2]

C6_Witness ==
    \E c, d \in Calls :
        /\ layers = <<"otel", "prometheus">>
        /\ Returned(c) /\ ret[c][2] = "refused" /\ ~ret[c][1].present
        /\ Returned(d) /\ ret[d][2] = NoError /\ ret[d][1].id = d

\* C7: with calls running concurrently on one transport, each caller retrieves
\* only the Result created for its own call, and no Result holds a timestamp
\* written by another call's callbacks or completion step.
C7_NoCrossRequestLeak ==
    /\ \A p \in Calls : \A c \in writers[p] : result[c] = p /\ writers[p] \subseteq {c}
    /\ \A c \in Calls :
          (Returned(c) /\ ~ret[c][1].Request.isNil) =>
              /\ GetResult(ret[c][1].Request) = result[c]
              /\ \A d \in Calls \ {c} : result[d] # result[c]

C7_Witness ==
    \E c, d \in Calls :
        /\ c # d
        /\ Returned(c) /\ GetResult(ret[c][1].Request) = result[c]
        /\ pc[d] = "inBase" /\ heap[result[d]].Start < heap[result[c]].End
        /\ \E f \in CallbackFields : heap[result[d]][f] # 0
        /\ GetResult(callerReq[d]) = 0

\* C8 (as claimed): after a RoundTrip that obtained a response, GetResult on the
\* response's request and GetResult on the request the caller passed in both
\* return the call's Result.
C8_LookupFromEitherHandle ==
    \A c \in Calls :
        (Returned(c) /\ ret[c][1].present) =>
            /\ GetResult(ret[c][1].Request) = result[c]
            /\ GetResult(callerReq[c]) = result[c]

\* C8 (amended): after a RoundTrip that obtained a response whose Request is
\* set, GetResult on the response's request returns the call's Result;
\* GetResult on the request the caller passed in does not: the Result is bound
\* to a copy of it, and the caller's request carries what it carried before.
C8_LookupFromResponse ==
    \A c \in Calls :
        (Returned(c) /\ ret[c][1].present /\ ~ret[c][1].Request.isNil) =>
            /\ GetResult(ret[c][1].Request) = result[c]
            /\ GetResult(callerReq[c]) # result[c]

C8_Witness ==
    \E c \in Calls :
        /\ Returned(c) /\ baseOut[c][1].present
        /\ baseOut[c][1].Request = Request(<<>>)
        /\ GetResult(ret[c][1].Request) = result[c]
        /\ GetResult(callerReq[c]) = 0

\* C9: GetResult never fails: on a nil request, or on a request whose context
\* carries no Result, it returns nil; on a request whose context carries a
\* Result it returns exactly that Result.
C9_LookupTotal ==
    got.asked =>
        /\ got.req.isNil => got.res = 0
        /\ (~got.req.isNil /\ Carried(got.req.ctx) = {}) => got.res = 0
        /\ (~got.req.isNil /\ Carried(got.req.ctx) # {}) => Carried(got.req.ctx) = {got.res}

C9_Witness ==
    /\ got.asked /\ ~got.req.isNil
    /\ Len(got.req.ctx) = 3
    /\ got.req.ctx[1] = Entry(resultKey, 1)
    /\ got.req.ctx[2] = Entry(resultKey, 2)
    /\ got.req.ctx[3].key = traceKey
    /\ got.res = 2

\* C10: the completion step sets FirstByte to End when a response was obtained
\* and no callback stamped FirstByte; it keeps a stamped FirstByte; and it
\* leaves FirstByte as it was when no response was obtained.
C10_FirstByteFallback ==
    [][\A c \in Calls :
          (pc[c] = "complete" /\ pc'[c] = "returned") =>
              LET before == heap[result[c]]
                  after  == heap'[result[c]]
              IN  /\ (resp[c].present /\ before.FirstByte = 0) => after.FirstByte = after.End
                  /\ before.FirstByte # 0 => after.FirstByte = before.FirstByte
                  /\ ~resp[c].present => after.FirstByte = before.FirstByte]_vars

C10_Witness ==
    \E c \in Calls :
        /\ Returned(c) /\ ret[c][1].present /\ events = 1
        /\ heap[result[c]].FirstByte # 0
        /\ heap[result[c]].FirstByte < heap[result[c]].End

\* ---------------------------------------------------- the Result methods
\* b - a when both are set, else zero
Span(a, b) == IF a = 0 \/ b = 0 THEN 0 ELSE b - a

\* the keys of a structured form
Keys(j) == {j[k].key : k \in 1..Len(j)}

\* the nanoseconds a number of the structured form stands for, as milliseconds
MsValueNs(n) == (IF n.neg THEN 0 - 1 ELSE 1) * (n.int * Millisecond + n.frac)

\* the duration each numeric key of the structured form reports
KeyDuration(r) ==
    [dns_ms |-> DNSDuration(r), connect_ms |-> ConnectionDuration(r), tls_ms |-> TLSDuration(r),
     ttfb_ms |-> TTFB(r), total_ms |-> TotalDuration(r), request_ms |-> RequestDuration(r)]

OnlyStartAndEnd(r) ==
    /\ r.Start # 0 /\ r.End # 0
    /\ \A f \in TimeFields \ {"Start", "End"} : r[f] = 0

\* C11: for every Result with End and FirstByte set and FirstByte no later
\* than End, total >= ttfb >= 0.
C11_TotalAtLeastTTFB ==
    \A i \in 1..Len(view) :
        (q.End # 0 /\ q.FirstByte # 0 /\ q.FirstByte <= q.End) =>
            (view[i].total >= view[i].ttfb /\ view[i].ttfb >= 0)

\* C12: the connection duration is ConnectDone - ConnectStart when
\* ConnectStart is set, ConnectDone - Start when ConnectStart is unset and
\* Start is set, and zero when ConnectDone is unset or neither start is set.
C12_ConnectionDuration ==
    \A i \in 1..Len(view) :
        /\ (q.ConnectDone # 0 /\ q.ConnectStart # 0) =>
               view[i].connection = q.ConnectDone - q.ConnectStart
        /\ (q.ConnectDone # 0 /\ q.ConnectStart = 0 /\ q.Start # 0) =>
               view[i].connection = q.ConnectDone - q.Start
        /\ (q.ConnectDone = 0 \/ (q.ConnectStart = 0 /\ q.Start = 0)) =>
               view[i].connection = 0

C12_Witness ==
    /\ view # <<>> /\ q = PhaseExample
    /\ view[1].connection = Ms(30)

\* C13: the server-processing duration is FirstByte - TLSHandshakeDone when
\* TLSHandshakeDone is set, FirstByte - ConnectDone when it is unset and
\* ConnectDone is set, and zero when FirstByte is unset or both are unset.
C13_ServerProcessingDuration ==
    \A i \in 1..Len(view) :
        /\ (q.FirstByte # 0 /\ q.TLSHandshakeDone # 0) =>
               view[i].serverProcessing = q.FirstByte - q.TLSHandshakeDone
        /\ (q.FirstByte # 0 /\ q.TLSHandshakeDone = 0 /\ q.ConnectDone # 0) =>
               view[i].serverProcessing = q.FirstByte - q.ConnectDone
        /\ (q.FirstByte = 0 \/ (q.TLSHandshakeDone = 0 /\ q.ConnectDone = 0)) =>
               view[i].serverProcessing = 0

C13_Witness ==
    /\ view # <<>>
    /\ q.FirstByte = 2 /\ q.TLSHandshakeDone = 1 /\ q.ConnectDone = 2
    /\ view[1].serverProcessing = 1

\* C14: dns, tls, ttfb, dataTransfer, total and requestDuration are each the
\* difference of their two bounds when both are set and zero when either is
\* unset; the Result of the tests gives dns=10ms, tls=20ms, ttfb=100ms,
\* dataTransfer=50ms, total=150ms.
C14_SpanDurations ==
    \A i \in 1..Len(view) :
        /\ view[i].dns = Span(q.DNSStart, q.DNSDone)
        /\ view[i].tls = Span(q.TLSHandshakeStart, q.TLSHandshakeDone)
        /\ view[i].ttfb = Span(q.Start, q.FirstByte)
        /\ view[i].dataTransfer = Span(q.FirstByte, q.End)
        /\ view[i].total = Span(q.Start, q.End)
        /\ view[i].requestDuration = Span(q.ConnectDone, q.FirstByte)
        /\ q = PhaseExample =>
              /\ view[i].dns = Ms(10) /\ view[i].tls = Ms(20) /\ view[i].ttfb = Ms(100)
              /\ view[i].dataTransfer = Ms(50) /\ view[i].total = Ms(150)

C14_Witness ==
    /\ view # <<>> /\ q = PhaseExample
    /\ view[1].dns = Ms(10) /\ view[1].dataTransfer = Ms(50) /\ view[1].total = Ms(150)

\* C15: with only Start and End set, total = End - Start and every other
\* duration is 0; with nothing set every duration is 0.
C15_StartAndEndOnly ==
    \A i \in 1..Len(view) :
        /\ OnlyStartAndEnd(q) =>
              /\ view[i].total = q.End - q.Start
              /\ \A n \in DurationNames \ {"total"} : view[i][n] = 0
        /\ (\A f \in TimeFields : q[f] = 0) => \A n \in DurationNames : view[i][n] = 0

C15_Witness ==
    /\ view # <<>> /\ OnlyStartAndEnd(q) /\ q.Start = 1 /\ q.End = 2
    /\ q.Error = "refused"
    /\ view[1].total = 1 /\ view[1].ttfb = 0

C17_StructuredForm ==
    \A i \in 1..Len(json) :
        /\ {"connect_ms", "ttfb_ms", "total_ms", "request_ms"} \subseteq Keys(json[i])
        /\ "dns_ms" \in Keys(json[i]) <=> DNSDuration(q) # 0
        /\ "tls_ms" \in Keys(json[i]) <=> TLSDuration(q) # 0
        /\ \A k \in 1..Len(json[i]) :
              json[i][k].key # "error" =>
                  /\ ~json[i][k].isString
                  /\ MsValueNs(json[i][k].num) = KeyDuration(q)[json[i][k].key] * UnitNs

C17_Witness ==
    /\ json # <<>>
    /\ q.DNSStart = 1 /\ q.DNSDone = 2 /\ q.TLSHandshakeDone = 0
    /\ Keys(json[1]) = {"dns_ms", "connect_ms", "ttfb_ms", "total_ms", "request_ms"}
    /\ json[1][1].num = [neg |-> FALSE, int |-> 0, frac |-> UnitNs]

\* C18: the structured form has an error field exactly when an error was
\* recorded, whatever its message, and the field carries the message.
C18_ErrorFieldIffError ==
    \A i \in 1..Len(json) :
        /\ "error" \in Keys(json[i]) <=> q.Error # NoError
        /\ q.Error # NoError =>
              \E k \in 1..Len(json[i]) : json[i][k].key = "error" /\ json[i][k].str = q.Error

\* C19: with an error recorded the compact rendering is exactly "Error: "
\* followed by the message, with no duration, whatever the timestamps; with
\* no error it never contains "Error:".
C19_ErrorRendering ==
    \A i \in 1..Len(text) :
        /\ q.Error # NoError => text[i] = <<Piece("Error: ", NoDuration, q.Error)>>
        /\ q.Error = NoError =>
              \A k \in 1..Len(text[i]) : text[i][k].label # "Error: " /\ text[i][k].msg = ""

C19_Witness ==
    /\ text # <<>> /\ q.Error = "refused"
    /\ q.Start = 1 /\ q.End = 2 /\ q.DNSStart = 1 /\ q.DNSDone = 2
    /\ Len(text[1]) = 1 /\ text[1][1].msg = "refused"

\* the phases after total= whose duration is nonzero, in the order dns,
\* connect, tls, ttfb
NonzeroPhases(r) ==
    (IF DNSDuration(r) # 0 THEN <<Piece(" dns=", DurationString(DNSDuration(r)), "")>> ELSE <<>>)
    \o (IF ConnectionDuration(r) # 0
        THEN <<Piece(" connect=", DurationString(ConnectionDuration(r)), "")>> ELSE <<>>)
    \o (IF TLSDuration(r) # 0 THEN <<Piece(" tls=", DurationString(TLSDuration(r)), "")>> ELSE <<>>)
    \o (IF TTFB(r) # 0 THEN <<Piece(" ttfb=", DurationString(TTFB(r)), "")>> ELSE <<>>)

\* C20: without an error the compact rendering starts with total=<total> and
\* then lists dns=, connect=, tls=, ttfb= in that order, each present if and
\* only if its duration is nonzero.
C20_PhasesListedIffNonzero ==
    \A i \in 1..Len(text) :
        q.Error = NoError =>
            text[i] = <<Piece("total=", DurationString(TotalDuration(q)), "")>> \o NonzeroPhases(q)

\* ------------------------------------------ the transport and its options
\* C21: the Results of two different RoundTrip calls are distinct, and when a
\* call is made with the request of an earlier response (the next hop of a
\* chain), GetResult on its response's request returns the Result of this
\* call and not the earlier one.
C21_FreshResultPerCall ==
    /\ \A c, d \in Calls :
          (c # d /\ pc[c] # "idle" /\ pc[d] # "idle") => result[c] # result[d]
    /\ \A c \in Calls :
          (Returned(c) /\ ret[c][1].present /\ ~ret[c][1].Request.isNil
             /\ GetResult(callerReq[c]) # 0) =>
              /\ GetResult(ret[c][1].Request) = result[c]
              /\ GetResult(ret[c][1].Request) # GetResult(callerReq[c])

C21_Witness ==
    \E c, d \in Calls :
        /\ c # d /\ Returned(c) /\ Returned(d)
        /\ callerReq[c] = ret[d][1].Request
        /\ GetResult(callerReq[c]) = result[d]
        /\ baseOut[c][1].present /\ baseOut[c][1].Request.ctx # <<>>
        /\ GetResult(ret[c][1].Request) = result[c]

\* C22: ReqDuration, ConnDuration and Duration of the transport return zero
\* whatever requests the transport has executed or is executing.
C22_LegacyAccessorsZero ==
    legacy.read => (legacy.ReqDuration = 0 /\ legacy.ConnDuration = 0 /\ legacy.Duration = 0)

C22_Witness ==
    /\ legacy.read /\ legacy.Duration = 0
    /\ Returned(1) /\ TotalDuration(heap[result[1]]) > 0
    /\ pc[2] = "inBase"

\* C23: within one RoundTrip call f.next.RoundTrip is invoked exactly once,
\* whether it returns a response or an error.
C23_DelegatesOnce ==
    \A c \in Calls :
        /\ invoked[c] <= 1
        /\ pc[c] # "idle" => invoked[c] = 1

C23_Witness ==
    \E c \in Calls :
        /\ Returned(c) /\ ret[c][2] # NoError /\ baseOut[c][2] # NoError
        /\ invoked[c] = 1

\* C24: RoundTrip leaves the request the caller passed in as it was, and the
\* request it hands to f.next is that request with only the context changed
\* (the Result and the client trace attached).
C24_CallerRequestUntouched ==
    [][\A c \in Calls :
          /\ (pc[c] = "idle" /\ pc'[c] # "idle") =>
                /\ callerReq'[c] \in CallerRequests
                /\ reqStack'[c][1] =
                      [callerReq'[c] EXCEPT !.ctx = Attach(callerReq'[c].ctx, result'[c], c)]
          /\ pc[c] # "idle" => callerReq'[c] = callerReq[c]
      ]_vars

C24_Witness ==
    \E c \in Calls :
        /\ pc[c] = "inBase" /\ layers = <<>>
        /\ callerReq[c] = Request(<<>>)
        /\ reqStack[c][1].ctx = Attach(<<>>, result[c], c)
        /\ reqStack[c][1].Header = callerReq[c].Header
        /\ reqStack[c][1].Body = callerReq[c].Body

\* C25: after New(WithKeepAlives(false)) the http.Transport New built has
\* keep-alives disabled, after New() or New(WithKeepAlives(true)) it has them
\* enabled, and after New(WithTLSHandshakeTimeout(d)) its handshake timeout is d.
C25_OptionsReachTransport ==
    built.done =>
        /\ opts = <<WithKeepAlives(FALSE)>> => built.transport.DisableKeepAlives
        /\ opts \in {<<>>, <<WithKeepAlives(TRUE)>>} => ~built.transport.DisableKeepAlives
        /\ (Len(opts) = 1 /\ opts[1].name = "WithTLSHandshakeTimeout") =>
               built.transport.TLSHandshakeTimeout = opts[1].d1

\* C26: after New(WithTimeout(connect, total)) the dialer's timeout is
\* connect, and with total > 0 what New built differs from what
\* New(WithTimeout(connect, 0)) builds.
C26_TotalTimeoutConfigured ==
    (built.done /\ Len(opts) = 1 /\ opts[1].name = "WithTimeout") =>
        /\ built.f.dialer.Timeout = opts[1].d1
        /\ opts[1].d2 > 0 => built # New(<<WithTimeout(opts[1].d1, 0)>>)

\* the calls that are inside the RoundTrip of the k-th transport below Ferret
Inside(k) ==
    {c \in Calls : \/ pc[c] \in {"enter", "inBase"} /\ Len(reqStack[c]) > k
                   \/ pc[c] = "exit" /\ Len(reqStack[c]) >= k}

\* C27: the in-flight gauge equals the number of calls that are inside the
\* Prometheus transport's RoundTrip, and is zero once every call has
\* returned, with a response or with an error.
C27_GaugeCountsInFlight ==
    /\ \A k \in 1..Len(layers) : layers[k] = "prometheus" => gauge = Cardinality(Inside(k))
    /\ (\A c \in Calls : pc[c] \in {"idle", "complete", "returned"}) => gauge = 0

C27_Witness ==
    \E c, d \in Calls :
        /\ layers = <<"otel", "prometheus">>
        /\ Returned(c) /\ ret[c][2] # NoError
        /\ pc[d] = "inBase" /\ gauge = 1

\* C28: through a transport with the Prometheus layer each RoundTrip call
\* increments the request counter exactly once, with status=error exactly
\* when the wrapped transport returned an error and code=0 exactly when there
\* is no response, the response's status code otherwise.
C28_CounterOncePerCall ==
    \A c \in Calls :
        /\ Len(counter[c]) <= 1
        /\ (Returned(c) /\ \E k \in 1..Len(layers) : layers[k] = "prometheus") =>
              /\ Len(counter[c]) = 1
              /\ counter[c][1].status = "error" <=> baseOut[c][2] # NoError
              /\ counter[c][1].code = 0 <=> ~baseOut[c][1].present
              /\ baseOut[c][1].present => counter[c][1].code = baseOut[c][1].StatusCode

C28_Witness ==
    \E c \in Calls :
        /\ Returned(c) /\ layers = <<"prometheus">>
        /\ baseOut[c][1].present /\ baseOut[c][1].StatusCode = StatusInternalServerError
        /\ counter[c] = <<[code |-> StatusInternalServerError, status |-> "success"]>>

\* C29: through a transport with the OpenTelemetry layer each RoundTrip call
\* starts one span and ends it once before it returns; the span's status is
\* Error when the wrapped transport returned an error or the status code is
\* >= 400, and Ok otherwise.
C29_OneSpanPerCall ==
    \A c \in Calls :
        /\ Len(spans[c]) <= 1
        /\ \A i \in 1..Len(spans[c]) : spans[c][i].ended <= 1
        /\ (pc[c] \in {"enter", "inBase", "exit"}) =>
               \A i \in 1..Len(spans[c]) : spans[c][i].ended = 0
        /\ (Returned(c) /\ \E k \in 1..Len(layers) : layers[k] = "otel") =>
              /\ Len(spans[c]) = 1
              /\ spans[c][1].ended = 1
              /\ spans[c][1].status =
                    IF baseOut[c][2] # NoError \/ baseOut[c][1].StatusCode >= 400
                    THEN "Error" ELSE "Ok"

C29_Witness ==
    \E c \in Calls :
        /\ Returned(c) /\ layers = <<"otel">>
        /\ baseOut[c][1].present /\ baseOut[c][1].StatusCode = StatusInternalServerError
        /\ spans[c] = <<[ended |-> 1, status |-> "Error"]>>

\* C30: a field of a Result that a ClientTrace callback has stamped is not
\* overwritten when the engine invokes the same callback again for the
\* request.
C30_CallbacksSingleFire ==
    [][\A c \in Calls : \A f \in CallbackFields :
          (pc[c] = "inBase" /\ heap[result[c]][f] # 0) => heap'[result[c]][f] = heap[result[c]][f]
      ]_vars

\* --------------------------------------- the order of the timestamps
\* a ClientTrace callback invoked by the engine, first time or not, during a
\* request with several milestones
EngineCallback(c, f) ==
    /\ pc[c] = "inBase"
    /\ events < MaxFired
    /\ heap' = [heap EXCEPT ![TraceTarget(c)][f] = now]
    /\ writers' = [writers EXCEPT ![TraceTarget(c)] = @ \cup {c}]
    /\ events' = events + 1
    /\ clockLog' = [clockLog EXCEPT ![c] = Append(@, Reading(f, now))]
    /\ UNCHANGED <<now, layers, pc, callerReq, result, reqStack, resp, err, baseOut, ret,
                   seals, emitted, got, q, view, text, json,
                   invoked, gauge, counter, spans, legacy, opts, built, cliVars>>

NextOrder ==
    \/ Begin(1, Request(<<>>))
    \/ \E f \in CallbackFields : EngineCallback(1, f)
    \/ \E out \in BaseOutcomes(1) : BaseReturn(1, out)
    \/ Complete(1)
    \/ Tick

SpecOrder == InitTrace /\ [][NextOrder]_vars

\* the positions of the clock log at which callback f was invoked
InvokedAt(c, f) == {i \in 1..Len(clockLog[c]) : clockLog[c][i].field = f}

\* C31: the timestamps are assigned in callback order: Start is stamped before
\* the wrapped transport is invoked, and if the engine invokes callback A
\* before callback B within one request, the field stamped by A is <= the
\* field stamped by B, and Start is <= every other set field
C31_StampedInCallbackOrder ==
    \A c \in Calls :
        pc[c] \in {"inBase", "complete", "returned"} =>
            LET r == heap[result[c]]
            IN  /\ r.Start # 0
                /\ clockLog[c][1].field = "Start"
                /\ \A f \in CallbackFields \cup {"End"} : r[f] # 0 => r.Start <= r[f]
                /\ \A a, b \in CallbackFields :
                       (\E i \in InvokedAt(c, a), j \in InvokedAt(c, b) : i < j)
                           => r[a] <= r[b]

\* C32: a milestone field whose callback the engine never invokes stays unset
\* through sealing, FirstByte being the only field the completion step may fill
\* in; when no TLS callback fires (plaintext) the TLS fields are unset, the
\* tls duration is 0 and the structured form has no tls field; a done
\* callback without its start callback leaves the start field unset
C32_UnfiredStaysUnset ==
    \A c \in Calls :
        result[c] # 0 =>
            LET r == heap[result[c]]
            IN  /\ \A f \in CallbackFields \ {"FirstByte"} : InvokedAt(c, f) = {} => r[f] = 0
                /\ InvokedAt(c, "FirstByte") = {} => r.FirstByte \in {0, r.End}
                /\ InvokedAt(c, "TLSHandshakeStart") \cup InvokedAt(c, "TLSHandshakeDone") = {}
                       => /\ r.TLSHandshakeStart = 0 /\ r.TLSHandshakeDone = 0
                          /\ TLSDuration(r) = 0
                          /\ "tls_ms" \notin Keys(MarshalJSON(r))

\* a sealed plaintext request with a response, during which ConnectDone fired
\* and ConnectStart did not
C32_Witness ==
    \E c \in Calls :
        /\ Returned(c) /\ seals[c] = 1 /\ ret[c][1].present
        /\ InvokedAt(c, "ConnectDone") # {}
        /\ heap[result[c]].ConnectDone # 0
        /\ heap[result[c]].ConnectStart = 0
        /\ heap[result[c]].TLSHandshakeStart = 0
        /\ "connect_ms" \in Keys(MarshalJSON(heap[result[c]]))

\* no Result is bound to the response's request
NoneOnResponse(rsp) == ~rsp.present \/ rsp.Request.isNil \/ Carried(rsp.Request.ctx) = {}

\* the lookup of a layer misses: the Prometheus layer looks on its request, then
\* on the response's request; the OpenTelemetry layer on the response's request
LookupMiss(layer, req, rsp) ==
    IF layer = "prometheus"
    THEN (req.isNil \/ Carried(req.ctx) = {}) /\ NoneOnResponse(rsp)
    ELSE NoneOnResponse(rsp)

\* C33: when an exporter layer finds no Result for a request, it emits no
\* timing data and does not fail: it returns the response and the error of the
\* transport it wraps
C33_MissSkipsEmission ==
    [][\A c \in Calls :
          (/\ pc[c] = "exit"
           /\ reqStack'[c] # reqStack[c]
           /\ LookupMiss(layers[Len(reqStack[c])], reqStack[c][Len(reqStack[c])], resp[c]))
              => /\ emitted'[c] = emitted[c]
                 /\ resp'[c] = resp[c]
                 /\ err'[c] = err[c]
                 /\ pc'[c] \in {"exit", "complete"}]_vars

\* a call through both layers whose response carries a request without a
\* Result: the OpenTelemetry layer missed and emitted nothing, the Prometheus
\* layer found the Result on its own request, and the caller got the response
C33_Witness ==
    \E c \in Calls :
        /\ Returned(c)
        /\ layers = <<"otel", "prometheus">>
        /\ baseOut[c][1].present
        /\ NoneOnResponse(baseOut[c][1])
        /\ Len(emitted[c]) = 1
        /\ emitted[c][1].layer = "prometheus"
        /\ ret[c][1].present /\ ret[c][1].id = baseOut[c][1].id
        /\ ret[c][2] = baseOut[c][2]

\* the timestamps a sequence of clock readings produces, each reading stored in
\* the field it was taken for and End copied into a FirstByte still unset when
\* there is a response
RECURSIVE Replay(_, _)
Replay(log, hasResp) ==
    IF log = <<>> THEN [f \in TimeFields |-> 0]
    ELSE LET before == Replay(SubSeq(log, 1, Len(log) - 1), hasResp)
             last   == log[Len(log)]
             stored == [before EXCEPT ![last.field] = last.at]
         IN  IF last.field = "End" /\ hasResp /\ stored.FirstByte = 0
             THEN [stored EXCEPT !.FirstByte = last.at]
             ELSE stored

\* C34: every timestamp of a record is a value the injected clock returned, the
\* clock being called once for Start, once per callback invocation and once
\* for End, so that the record is a function of the sequence of readings
C34_TimestampsAreClockReadings ==
    \A c \in Calls :
        result[c] # 0 =>
            LET r   == heap[result[c]]
                log == clockLog[c]
            IN  /\ Cardinality(InvokedAt(c, "Start")) = 1
                /\ log[1].field = "Start"
                /\ Cardinality(InvokedAt(c, "End")) = seals[c]
                /\ \A i \in 1..Len(log) : log[i].field \in TimeFields /\ log[i].at \in 1..now
                /\ \A f \in TimeFields : r[f] = Replay(log, ret[c][1].present)[f]

\* a sealed request for which the clock was read three times, at different
\* instants: for Start, for a callback and for End
C34_Witness ==
    \E c \in Calls :
        /\ Returned(c)
        /\ Len(clockLog[c]) = 3
        /\ clockLog[c][1].at < clockLog[c][3].at
        /\ clockLog[c][2].field \in CallbackFields
        /\ heap[result[c]].End = clockLog[c][3].at

\* call c was given a request that carries the Result of the earlier call d
Reuses(c, d) ==
    /\ c # d
    /\ result[c] # 0 /\ result[d] # 0
    /\ GetResult(callerReq[c]) = result[d]

\* C35: when the request passed to RoundTrip already carries the Result of an
\* earlier call, RoundTrip binds a fresh Result that shadows it: the request
\* handed down and the new response yield the fresh Result, and the new call
\* does not modify the earlier Result
C35_FreshResultShadowsEarlier ==
    \A c, d \in Calls :
        Reuses(c, d) =>
            /\ result[c] # result[d]
            /\ reqStack[c] # <<>> => GetResult(reqStack[c][1]) = result[c]
            /\ (Returned(c) /\ ret[c][1].present /\ ~ret[c][1].Request.isNil)
                   => GetResult(ret[c][1].Request) = result[c]
            /\ c \notin writers[result[d]]

\* a returned call that was given the request of an earlier, sealed response
\* and whose own response yields another Result
C35_Witness ==
    \E c, d \in Calls :
        /\ Reuses(c, d)
        /\ Returned(c) /\ Returned(d)
        /\ heap[result[d]].End # 0
        /\ ret[c][1].present /\ ~ret[c][1].Request.isNil
        /\ GetResult(ret[c][1].Request) = result[c]
        /\ heap[result[c]].End # 0

\* the two options given to New are a and b, in either order
BothGiven(a, b) == Len(opts) = 2 /\ {opts[1], opts[2]} = {a, b} /\ a # b

\* the chain with one wrapper around the custom transport
Around(wrapper) == [wrappers |-> <<wrapper>>, base |-> "custom"]

\* C36: the transport chain New builds does not depend on the order of its
\* options: WithTransport(b) with WithPrometheus(c), in either order, yields a
\* Prometheus layer around b, likewise for WithOpenTelemetry, and WithPrometheus
\* with WithOpenTelemetry keeps both layers
C36_ChainIndependentOfOptionOrder ==
    built.done =>
        /\ BothGiven(WithTransport, WithPrometheus) => built.f.next = Around("prometheus")
        /\ BothGiven(WithTransport, WithOpenTelemetry) => built.f.next = Around("otel")
        /\ BothGiven(WithPrometheus, WithOpenTelemetry) =>
               {built.f.next.wrappers[k] : k \in 1..Len(built.f.next.wrappers)}
                   = {"prometheus", "otel"}

\* ------------------------------------------------ the CLI's simple mode
\* the configurations readConfig lets through: both numbers at least 1
Configs == [Iterations : 1..MaxIterations, Concurrency : 1..MaxConcurrency]

InitSimple ==
    /\ InitTransport(<<>>)
    /\ opts = <<>>
    /\ got = NotAsked
    /\ q = Result(0)
    /\ view = <<>> /\ text = <<>> /\ json = <<>>
    /\ config \in Configs
    /\ spawned = 0
    /\ worker = [i \in Iterations |-> NotStarted]
    /\ sem = 0
    /\ wg = 0
    /\ resultsChan = <<>>
    /\ closed = FALSE
    /\ results = <<>>
    /\ mainPc = "spawn"
    /\ summary = NoSummary

NextSimple ==
    \/ Spawn
    \/ StartCloser
    \/ \E i \in Iterations : Acquire(i)
    \/ \E i \in Iterations : \E r \in performRequest(i, MaxLatency) : Perform(i, r)
    \/ \E i \in Iterations : Send(i)
    \/ \E i \in Iterations : Release(i)
    \/ \E i \in Iterations : Done(i)
    \/ Close
    \/ Receive
    \/ Finish

\* the Go scheduler runs every goroutine that can run, and performRequest
\* returns (its context times out after 30 seconds)
SpecSimple == InitSimple /\ [][NextSimple]_vars /\ WF_vars(NextSimple)

\* the goroutines inside performRequest
Performing == {i \in Iterations : worker[i].pc = "perform"}

\* C37: in simple mode with Iterations = n and Concurrency = c, at most c
\* requests are being performed at any moment, exactly n results are collected,
\* one per iteration 0..n-1 and in that order after sorting, no worker blocks
\* forever on the results channel, and the run terminates
C37_SimpleModeBoundedAndTerminates ==
    /\ [](Cardinality(Performing) <= config.Concurrency)
    /\ [](mainPc = "done" =>
              /\ Len(results) = config.Iterations
              /\ \A k \in 1..Len(results) : results[k].Iteration = k - 1)
    /\ [](\A i \in Iterations :
              worker[i].pc = "send" => Len(resultsChan) < ChanCap(config.Iterations))
    /\ <>(mainPc = "done")

\* a finished run with more iterations than the concurrency allows at once,
\* one of them failed
C37_Witness ==
    /\ mainPc = "done"
    /\ config.Iterations > config.Concurrency
    /\ Len(results) = config.Iterations
    /\ summary.Failed = 1

\* ------------------------------------------------------- generateSummary
\* what a run against a valid URL collects for an iteration: a response, or a
\* request that failed after the longest wait
Collected(i) ==
    {r \in performRequest(i, MaxDuration) : r.Error = "" \/ r.Duration = MaxDuration}

RECURSIVE ResultLists(_)
\* the lists of n results, one per iteration
ResultLists(n) ==
    IF n = 0 THEN {<<>>}
    ELSE {Append(rs, r) : rs \in ResultLists(n - 1), r \in Collected(n - 1)}

InitSummary ==
    /\ InitTransport(<<>>)
    /\ opts = <<>>
    /\ got = NotAsked
    /\ q = Result(0)
    /\ view = <<>> /\ text = <<>> /\ json = <<>>
    /\ config = [Iterations |-> 0, Concurrency |-> 0]
    /\ spawned = 0
    /\ worker = [i \in Iterations |-> NotStarted]
    /\ sem = 0
    /\ wg = 0
    /\ resultsChan = <<>>
    /\ closed = FALSE
    /\ \E n \in 0..MaxResults : results \in ResultLists(n)
    /\ mainPc = "summary"
    /\ summary = NoSummary

NextSummary == Summarize

SpecSummary == InitSummary /\ [][NextSummary]_vars

\* the durations of the results that carry no error
SuccessfulDurations == {results[k].Duration : k \in {l \in 1..Len(results) : results[l].Error = ""}}

\* C38: generateSummary yields Successful + Failed = Iterations = number of
\* results, and when at least one request succeeded, Min <= Median <= P90 <=
\* P99 <= Max and Min <= Average <= Max, all over the successful requests only
C38_SummaryConsistent ==
    mainPc = "done" =>
        /\ summary.Successful + summary.Failed = summary.Iterations
        /\ summary.Iterations = Len(results)
        /\ summary.Successful = Cardinality({k \in 1..Len(results) : results[k].Error = ""})
        /\ summary.Successful > 0 =>
               /\ summary.Min <= summary.Median
               /\ summary.Median <= summary.P90
               /\ summary.P90 <= summary.P99
               /\ summary.P99 <= summary.Max
               /\ summary.Min <= summary.Average
               /\ summary.Average <= summary.Max
               /\ summary.Min \in SuccessfulDurations
               /\ summary.Max \in SuccessfulDurations
               /\ \A d \in SuccessfulDurations : summary.Min <= d /\ d <= summary.Max
               /\ {summary.Median, summary.Average, summary.P90, summary.P99}
                      \subseteq summary.Min..summary.Max

\* a summary of as many successful results as it takes for the 90th percentile
\* to lie below the maximum
C38_Witness ==
    /\ mainPc = "done"
    /\ summary.Successful = MaxResults
    /\ summary.Min < summary.Max
    /\ summary.P90 < summary.Max

====
